---- MODULE Spec2Model ----
(***************************************************************************)
(* Model of the locness-fluorologger acquisition program.                  *)
(*                                                                         *)
(*   FluorSpec : the Fluorometer object (fluorologger/fluorometer.py, and  *)
(*               the identical gain logic of the class in main.py) driven  *)
(*               through its public methods at arbitrary times.            *)
(*   ConvSpec  : the concentration converter of fluorometer.py built       *)
(*               with any combination of calibration arguments.            *)
(*   Spec      : the scheduler loop of main.py (run_rho / log_rho and the  *)
(*               KeyboardInterrupt handler of main), started in the state  *)
(*               in which my_scheduler.run() is entered (main.py:274).     *)
(*   StartSpec : the start of main() (main.py:190-213): the store check    *)
(*               of ensure_database_ready and the exit it leads to.        *)
(*   SensorSpec: the gain methods of Sensor (main-asyncio.py:61-74).       *)
(*                                                                         *)
(* Units: time in whole seconds, voltages in millivolts (the code's        *)
(* `voltage * 1000`), so the thresholds 0.15 V and 2.25 V are 150, 2250.   *)
(* Python's None is the empty tuple; a present value v is <<v>>.           *)
(***************************************************************************)
EXTENDS Integers, Sequences, FiniteSets, TLC

VARIABLES
    config,            \* values read from config.yaml (main.py:25-38)
    params,            \* calibration arguments of Fluorometer (fluorometer.py)
    store,             \* state of the SQLite file at DB_PATH when main() starts
    current_gain,      \* SensorSpec: Sensor.current_gain (main-asyncio.py)
    now,               \* time.time()
    gain,              \* Fluorometer.gain
    autogain,          \* Fluorometer.autogain
    last_gain_change,  \* Fluorometer.last_gain_change
    lines,             \* pattern last written to do_task, None before any write
    writes,            \* history: number of do_task.write calls made so far
    call,              \* FluorSpec: the last public method call: its argument, its
                       \*   return value and the time it was made at
    hist,              \* history: the values self.gain has taken, oldest first
    changes,           \* history: one record per gain transition of set_autogain
    volts,             \* history: the voltages handed to set_autogain so far
                       \*   ({} none yet, {v} always v, Voltages otherwise)
    pc,                \* Spec: position of the single thread in main()
    queue,             \* Spec: sched.scheduler event queue (due times, sorted)
    cyc,               \* Spec: locals of the running log_rho call
    attempted,         \* Spec: sinks attempted in the running cycle
    rows,              \* Spec: what each sink received in the running cycle
    exc,               \* Spec: exception pending while a finally clause runs
    stopCause,         \* Spec: why main() left my_scheduler.run()
    closed             \* Spec: resources released by main's interrupt handler

fluorVars == <<gain, autogain, last_gain_change, lines, writes>>
histVars  == <<hist, changes, volts>>
loopVars  == <<pc, queue, cyc, attempted, rows, exc, stopCause, closed>>
fixedVars == <<config, params, store, current_gain>>
vars      == <<fixedVars, now, fluorVars, call, histVars, loopVars>>

----------------------------------------------------------------------------
(* Bounds of the model *)

MaxTime == 9
MaxWrites == 3

(* Program constants *)

gain_change_delay == 3
LOW_MV  == 150
HIGH_MV == 2250
SERIAL_TIMEOUT == 1

None == << >>
Some(v) == <<v>>

Gains == {1, 10, 100}

(* Values the configuration file may hold. read_time, gain.gain and        *)
(* gain.auto are passed on unvalidated, so 5 stands for any gain value     *)
(* outside {1, 10, 100}.                                                   *)
ReadTimes   == {1, 4}
ConfigGains == {1, 10, 100, 5}
Cal == [slope  |-> (1 :> 2 @@ 10 :> 3 @@ 100 :> 5),
        offset |-> (1 :> 0 @@ 10 :> 1 @@ 100 :> 7)]
Configs ==
    [read_time : ReadTimes, gps_port : BOOLEAN, auto : BOOLEAN,
     gain : ConfigGains, cal : {Cal}]

(* Calibration keyword arguments of fluorologger/fluorometer.py: each is   *)
(* None when it is left out; 0 is a value a caller may pass (the           *)
(* calibration script passes std_voltage = 0 and blanks of 0). Voltages    *)
(* and blanks are in millivolts.                                           *)
NoParams ==
    [slope_1x |-> None, slope_10x |-> None, slope_100x |-> None,
     offset_1x |-> None, offset_10x |-> None, offset_100x |-> None,
     std_concentration |-> None, std_gain |-> None, std_voltage |-> None,
     blank_1x |-> None, blank_10x |-> None, blank_100x |-> None]
ParamSets ==
    [slope_1x : {None, Some(0), Some(2)}, slope_10x : {None, Some(3)},
     slope_100x : {None, Some(5)},
     offset_1x : {None, Some(0)}, offset_10x : {None, Some(1)},
     offset_100x : {None, Some(7)},
     std_concentration : {None, Some(0), Some(10)},
     std_gain : {None, Some(1), Some(10)},
     std_voltage : {None, Some(0), Some(1000)},
     blank_1x : {None, Some(0)}, blank_10x : {None, Some(0)},
     blank_100x : {None, Some(20)}]

(* Average voltages the analog task may return, in millivolts: below and   *)
(* at the low threshold, at and above the high threshold.                  *)
Voltages == {0, 149, 150, 2250, 2251}

----------------------------------------------------------------------------
(* Fluorometer *)

GainPattern(g) ==
    IF g = 1 THEN <<TRUE, TRUE>>
    ELSE IF g = 10 THEN <<FALSE, TRUE>>
    ELSE IF g = 100 THEN <<TRUE, FALSE>>
    ELSE None

(* set_gain: three independent ifs, nothing written for any other value;   *)
(* self.gain is not touched.                                               *)
set_gain(g) ==
    /\ lines' = IF GainPattern(g) # None THEN GainPattern(g) ELSE lines
    /\ writes' = IF GainPattern(g) # None THEN writes + 1 ELSE writes

(* Variants of determine_gain with a plausible slip each. *)
determine_gain_skip(avg_voltage) ==
    IF ~autogain THEN gain
    ELSE IF now - last_gain_change >= gain_change_delay
         THEN IF avg_voltage < LOW_MV
              THEN 100
              ELSE IF avg_voltage > HIGH_MV
                   THEN (IF gain = 100 THEN 10 ELSE 1)
                   ELSE gain
         ELSE gain

determine_gain_nosettle(avg_voltage) ==
    IF ~autogain THEN gain
    ELSE IF avg_voltage < LOW_MV
         THEN (IF gain = 1 THEN 10 ELSE 100)
         ELSE IF avg_voltage > HIGH_MV
              THEN (IF gain = 100 THEN 10 ELSE 1)
              ELSE gain

determine_gain_wrap(avg_voltage) ==
    IF ~autogain THEN gain
    ELSE IF now - last_gain_change >= gain_change_delay
         THEN IF avg_voltage < LOW_MV
              THEN (IF gain = 1 THEN 10 ELSE IF gain = 10 THEN 100 ELSE 1)
              ELSE IF avg_voltage > HIGH_MV
                   THEN (IF gain = 100 THEN 10 ELSE 1)
                   ELSE gain
         ELSE gain

determine_gain_noflag(avg_voltage) ==
    IF now - last_gain_change >= gain_change_delay
    THEN IF avg_voltage < LOW_MV
         THEN (IF gain = 1 THEN 10 ELSE 100)
         ELSE IF avg_voltage > HIGH_MV
              THEN (IF gain = 100 THEN 10 ELSE 1)
              ELSE gain
    ELSE gain

determine_gain(avg_voltage) ==
    IF ~autogain THEN gain
    ELSE IF now - last_gain_change >= gain_change_delay
         THEN IF avg_voltage < LOW_MV
              THEN (IF gain = 1 THEN 10 ELSE 100)
              ELSE IF avg_voltage > HIGH_MV
                   THEN (IF gain = 100 THEN 10 ELSE 1)
                   ELSE gain
         ELSE gain

(* set_autogain blocks in time.sleep(gain_change_delay) when it changes    *)
(* the gain; the model stops at MaxTime.                                   *)
CanSettle(avg_voltage) ==
    determine_gain(avg_voltage) # gain => now + gain_change_delay <= MaxTime

(* Variants of set_autogain with a plausible slip each: the gain applied   *)
(* without comparing it to the current one; the settling sleep left out.   *)
set_autogain_always(avg_voltage) ==
    LET new_gain == determine_gain(avg_voltage)
        current_time == now
    IN  /\ volts' = IF volts \subseteq {avg_voltage} THEN {avg_voltage} ELSE Voltages
        /\ gain' = new_gain
        /\ last_gain_change' = current_time
        /\ set_gain(new_gain)
        /\ now' = now + gain_change_delay
        /\ hist' = IF new_gain # gain THEN Append(hist, new_gain) ELSE hist
        /\ changes' = IF new_gain # gain
                      THEN Append(changes,
                               [at |-> current_time, prev |-> last_gain_change])
                      ELSE changes
        /\ UNCHANGED autogain

set_autogain_nosleep(avg_voltage) ==
    LET new_gain == determine_gain(avg_voltage)
        current_time == now
    IN  /\ volts' = IF volts \subseteq {avg_voltage} THEN {avg_voltage} ELSE Voltages
        /\ IF new_gain # gain
           THEN /\ gain' = new_gain
                /\ last_gain_change' = current_time
                /\ set_gain(new_gain)
                /\ now' = now
                /\ hist' = Append(hist, new_gain)
                /\ changes' = Append(changes,
                       [at |-> current_time, prev |-> last_gain_change])
           ELSE UNCHANGED <<gain, last_gain_change, lines, writes, now, hist, changes>>
        /\ UNCHANGED autogain

set_autogain(avg_voltage) ==
    LET new_gain == determine_gain(avg_voltage)
        current_time == now
    IN  /\ volts' = IF volts \subseteq {avg_voltage} THEN {avg_voltage} ELSE Voltages
        /\ IF new_gain # gain
           THEN /\ gain' = new_gain
                /\ last_gain_change' = current_time
                /\ set_gain(new_gain)
                /\ now' = now + gain_change_delay
                /\ hist' = Append(hist, new_gain)
                /\ changes' = Append(changes,
                       [at |-> current_time, prev |-> last_gain_change])
           ELSE UNCHANGED <<gain, last_gain_change, lines, writes, now, hist, changes>>
        /\ UNCHANGED autogain

(* set_autogain left by a KeyboardInterrupt raised inside its time.sleep,  *)
(* `slept` seconds after the write: the assignments and the gain-line      *)
(* write are done, the call does not return.                               *)
set_autogain_interrupted(avg_voltage, slept) ==
    LET new_gain == determine_gain(avg_voltage)
        current_time == now
    IN  /\ new_gain # gain
        /\ volts' = IF volts \subseteq {avg_voltage} THEN {avg_voltage} ELSE Voltages
        /\ gain' = new_gain
        /\ last_gain_change' = current_time
        /\ set_gain(new_gain)
        /\ now' = now + slept
        /\ hist' = Append(hist, new_gain)
        /\ changes' = Append(changes,
               [at |-> current_time, prev |-> last_gain_change])
        /\ UNCHANGED autogain

(* Fluorometer.__init__ at time 0 with the configured gain and autogain.   *)
FluorInit(c) ==
    /\ config = c
    /\ now = 0
    /\ gain = c.gain
    /\ autogain = c.auto
    /\ last_gain_change = 0
    /\ lines = GainPattern(c.gain)
    /\ writes = IF GainPattern(c.gain) # None THEN 1 ELSE 0
    /\ hist = <<c.gain>>
    /\ changes = << >>
    /\ volts = {}

NoCycle == [avg_voltage |-> None, concentration |-> None, gainAtRead |-> None,
            gps |-> None, parsed_data |-> None, gps_start |-> None,
            lat |-> None, lon |-> None, gps_time |-> None, timestamp |-> None,
            hwError |-> FALSE, commits |-> 0]
NoRows == [s \in {"gps", "console", "csv", "rho"} |-> None]

LoopIdle ==
    /\ pc = "api"
    /\ queue = << >>
    /\ cyc = NoCycle
    /\ attempted = {}
    /\ rows = NoRows
    /\ exc = "none"
    /\ stopCause = "none"
    /\ closed = {}

----------------------------------------------------------------------------
(* FluorSpec: the public methods called at arbitrary times *)

InitFluor ==
    /\ \E c \in Configs : c.read_time = 1 /\ ~c.gps_port /\ FluorInit(c)
    /\ params = NoParams
    /\ store = "ready"
    /\ current_gain = None
    /\ call = [op |-> "init", arg |-> None, ret |-> None, at |-> 0]
    /\ LoopIdle

DetermineGainCall ==
    /\ \E v \in Voltages :
          call' = [op |-> "determine_gain", arg |-> Some(v),
                   ret |-> Some(determine_gain(v)), at |-> now]
    /\ UNCHANGED <<fixedVars, now, fluorVars, histVars, loopVars>>

SetAutogainCall ==
    /\ \E v \in Voltages :
          /\ CanSettle(v)
          /\ set_autogain(v)
          /\ call' = [op |-> "set_autogain", arg |-> Some(v), ret |-> None, at |-> now]
    /\ UNCHANGED <<fixedVars, loopVars>>

SetGainCall ==
    /\ writes < MaxWrites
    /\ \E g \in ConfigGains :
          /\ set_gain(g)
          /\ call' = [op |-> "set_gain", arg |-> Some(g), ret |-> None, at |-> now]
    /\ UNCHANGED <<fixedVars, now, gain, autogain, last_gain_change, histVars, loopVars>>

Advance ==
    /\ now < MaxTime
    /\ now' = now + 1
    /\ UNCHANGED <<fixedVars, fluorVars, call, histVars, loopVars>>

NextFluor == DetermineGainCall \/ SetAutogainCall \/ SetGainCall \/ Advance

FluorSpec == InitFluor /\ [][NextFluor]_vars

----------------------------------------------------------------------------
(* ConvSpec: the concentration converter of fluorologger/fluorometer.py,   *)
(* constructed with any combination of calibration arguments, then used    *)
(* as log_rho uses it: read_voltage, then convert_to_concentration.        *)

(* The outcome of a conversion: the method that was picked, the exception  *)
(* raised if any, and the value returned otherwise, as the fraction        *)
(* <<numerator, denominator>>.                                             *)
Returns(m, num, den) == [method |-> m, exc |-> "none", value |-> Some(<<num, den>>)]
Raises(m, e) == [method |-> m, exc |-> e, value |-> None]

NoCalibration == "ValueError: No valid calibration parameters found."

(* Python truth value of an argument: None and 0 are false.                *)
Truthy(x) == x # None /\ x[1] # 0

slope(g)  == IF g = 1 THEN params.slope_1x
             ELSE IF g = 10 THEN params.slope_10x ELSE params.slope_100x
offset(g) == IF g = 1 THEN params.offset_1x
             ELSE IF g = 10 THEN params.offset_10x ELSE params.offset_100x
blank(g)  == IF g = 1 THEN params.blank_1x
             ELSE IF g = 10 THEN params.blank_10x ELSE params.blank_100x

(* Variants of the two conversions with a plausible slip each: the 1x     *)
(* calibration used at every gain; the blank of the current gain used for  *)
(* the standard as well.                                                   *)
convert_to_concentration_3pt_1x(voltage) ==
    IF gain \in Gains
    THEN IF slope(1) = None \/ offset(1) = None
         THEN Raises("3pt", "TypeError")
         ELSE Returns("3pt", slope(1)[1] * voltage + offset(1)[1], 1)
    ELSE Raises("3pt", "UnboundLocalError")

convert_to_conc_turner_sameblank(voltage) ==
    IF params.std_gain = None \/ params.std_gain[1] \notin Gains
    THEN Raises("turner", "ValueError: Invalid standard gain setting")
    ELSE IF gain \notin Gains
    THEN Raises("turner", "ValueError: Invalid gain setting")
    ELSE IF blank(gain) = None
            \/ params.std_concentration = None \/ params.std_voltage = None
    THEN Raises("turner", "TypeError")
    ELSE IF params.std_voltage[1] - blank(gain)[1] = 0
    THEN Raises("turner", "ZeroDivisionError")
    ELSE Returns("turner",
                 (voltage - blank(gain)[1]) * params.std_concentration[1],
                 gain * (params.std_voltage[1] - blank(gain)[1])
                      * params.std_gain[1])

(* slope * voltage * 1000 + offset of the current gain; no branch for any  *)
(* other gain, so `concentration` is unbound at the return.                *)
convert_to_concentration_3pt(voltage) ==
    IF gain \in Gains
    THEN IF slope(gain) = None \/ offset(gain) = None
         THEN Raises("3pt", "TypeError")
         ELSE Returns("3pt", slope(gain)[1] * voltage + offset(gain)[1], 1)
    ELSE Raises("3pt", "UnboundLocalError")

(* (voltage - blank) / gain * std_concentration                            *)
(*    / (std_voltage - cal_blank) / std_gain                               *)
convert_to_conc_turner(voltage) ==
    IF params.std_gain = None \/ params.std_gain[1] \notin Gains
    THEN Raises("turner", "ValueError: Invalid standard gain setting")
    ELSE LET cal_blank == blank(params.std_gain[1])
         IN  IF gain \notin Gains
             THEN Raises("turner", "ValueError: Invalid gain setting")
             ELSE IF blank(gain) = None \/ cal_blank = None
                     \/ params.std_concentration = None
                     \/ params.std_voltage = None
             THEN Raises("turner", "TypeError")
             ELSE IF params.std_voltage[1] - cal_blank[1] = 0
             THEN Raises("turner", "ZeroDivisionError")
             ELSE Returns("turner",
                          (voltage - blank(gain)[1]) * params.std_concentration[1],
                          gain * (params.std_voltage[1] - cal_blank[1])
                               * params.std_gain[1])

(* A variant of the dispatch with a plausible slip: the three-point        *)
(* calibration tried first.                                                *)
fluorometer_convert_to_concentration_3pt_first(voltage) ==
    IF Truthy(params.slope_1x) /\ Truthy(params.slope_10x) /\ Truthy(params.slope_100x)
    THEN convert_to_concentration_3pt(voltage)
    ELSE IF Truthy(params.std_concentration) /\ Truthy(params.std_voltage)
    THEN convert_to_conc_turner(voltage)
    ELSE Raises("none", NoCalibration)

(* Fluorometer.convert_to_concentration of fluorometer.py: the dispatch on *)
(* the truth value of std_concentration and std_voltage, then of the three *)
(* slopes.                                                                 *)
fluorometer_convert_to_concentration(voltage) ==
    IF Truthy(params.std_concentration) /\ Truthy(params.std_voltage)
    THEN convert_to_conc_turner(voltage)
    ELSE IF Truthy(params.slope_1x) /\ Truthy(params.slope_10x)
            /\ Truthy(params.slope_100x)
    THEN convert_to_concentration_3pt(voltage)
    ELSE Raises("none", NoCalibration)

(* Voltages handed to the converter: those of the gain thresholds and 1 V. *)
ConvVoltages == Voltages \cup {1000}

(* __init__ stores the arguments as given and checks none of them.         *)
InitConv ==
    /\ \E c \in Configs :
          c.read_time = 1 /\ ~c.gps_port /\ ~c.auto /\ FluorInit(c)
    /\ params \in ParamSets
    /\ store = "ready"
    /\ current_gain = None
    /\ call = [op |-> "init", arg |-> None, ret |-> None, at |-> 0]
    /\ LoopIdle

ReadVoltageCall ==
    /\ call.op \in {"init", "convert_to_concentration"}
    /\ call.op = "convert_to_concentration" => call.ret.exc = "none"
    /\ \E v \in ConvVoltages :
          call' = [op |-> "read_voltage", arg |-> None, ret |-> Some(v), at |-> now]
    /\ UNCHANGED <<fixedVars, now, fluorVars, histVars, loopVars>>

ConvertCall ==
    /\ call.op = "read_voltage"
    /\ call' = [op |-> "convert_to_concentration", arg |-> call.ret,
                ret |-> fluorometer_convert_to_concentration(call.ret[1]),
                at |-> now]
    /\ UNCHANGED <<fixedVars, now, fluorVars, histVars, loopVars>>

NextConv == ReadVoltageCall \/ ConvertCall

ConvSpec == InitConv /\ [][NextConv]_vars

----------------------------------------------------------------------------
(* Spec: the scheduler loop of main.py *)

(* A parsed GGA sentence as log_rho uses it: gps.lat, gps.lon, gps.time.   *)
Fixes == {[lat |-> 41, lon |-> -70, time |-> Some("120000")]}

(* Variant: the slope and offset of gain 1 whatever the gain.              *)
convert_to_concentration_1x(voltage) ==
    IF gain \in {1, 10, 100}
    THEN Some(config.cal.slope[1] * voltage + config.cal.offset[1])
    ELSE None

(* The class of main.py converts with the slope and offset of self.gain    *)
(* (voltage * 1000 is the voltage in millivolts); for any other gain no    *)
(* branch assigns `concentration` and the return raises UnboundLocalError, *)
(* modelled as None.                                                       *)
convert_to_concentration(voltage) ==
    IF gain = 1 THEN Some(config.cal.slope[1] * voltage + config.cal.offset[1])
    ELSE IF gain = 10 THEN Some(config.cal.slope[10] * voltage + config.cal.offset[10])
    ELSE IF gain = 100 THEN Some(config.cal.slope[100] * voltage + config.cal.offset[100])
    ELSE None

(* sched.scheduler.enter: the queue is kept ordered by due time.           *)
RECURSIVE Enter(_, _)
Enter(q, t) ==
    IF q = << >> THEN <<t>>
    ELSE IF t < Head(q) THEN <<t>> \o q
    ELSE <<Head(q)>> \o Enter(Tail(q), t)

(* A variant of Sample with a plausible slip: the voltage left out of the  *)
(* record.                                                                 *)
Sample_novoltage ==
    [gain |-> gain, voltage |-> None, concentration |-> cyc.concentration,
     lat |-> cyc.lat, lon |-> cyc.lon]

(* What log_rho hands to the console log, the CSV file and the measurement *)
(* table: fluorometer.gain is read when the record is built.               *)
Sample ==
    [gain |-> gain, voltage |-> cyc.avg_voltage, concentration |-> cyc.concentration,
     lat |-> cyc.lat, lon |-> cyc.lon]

(* An exception other than KeyboardInterrupt leaving log_rho passes        *)
(* run_rho, scheduler.run and main's try (only `finally` runs): the        *)
(* process ends.                                                           *)
Crash(cause) ==
    /\ pc' = "done"
    /\ stopCause' = cause
    /\ UNCHANGED closed

(* The state in which my_scheduler.run() is entered: the Fluorometer is    *)
(* constructed and the first event is queued READ_TIME from now.           *)
Init ==
    /\ \E c \in Configs : FluorInit(c) /\ queue = Enter(<< >>, c.read_time)
    /\ params = NoParams
    /\ store = "ready"
    /\ current_gain = None
    /\ call = [op |-> "init", arg |-> None, ret |-> None, at |-> 0]
    /\ pc = "sched"
    /\ cyc = NoCycle
    /\ attempted = {}
    /\ rows = NoRows
    /\ exc = "none"
    /\ stopCause = "none"
    /\ closed = {}

(* scheduler.run: the head event is not due yet, delayfunc(time - now).    *)
(* run_rho re-arms the queue before anything else, so it is never empty.   *)
SchedSleep ==
    /\ pc = "sched"
    /\ queue # << >>
    /\ Head(queue) > now
    /\ Head(queue) <= MaxTime
    /\ now' = Head(queue)
    /\ UNCHANGED <<fixedVars, fluorVars, call, histVars, loopVars>>

(* Variant of run_rho with a plausible slip: the tick handler fires as a    *)
(* timer callback would, also while the previous cycle is in its           *)
(* set_autogain call.                                                      *)
RunRho_reentrant ==
    /\ pc \in {"sched", "autogain"}
    /\ queue # << >>
    /\ Head(queue) <= now
    /\ queue' = Enter(Tail(queue), now + config.read_time)
    /\ pc' = "read"
    /\ UNCHANGED <<fixedVars, now, fluorVars, call, histVars, cyc, attempted, rows,
                   exc, stopCause, closed>>

(* Variant of run_rho with a plausible slip: the next event entered at a   *)
(* fixed period from the time the running event was due, not from the      *)
(* time run_rho is called.                                                 *)
RunRho_fixedrate ==
    /\ pc = "sched"
    /\ queue # << >>
    /\ Head(queue) <= now
    /\ queue' = Enter(Tail(queue), Head(queue) + config.read_time)
    /\ pc' = "read"
    /\ UNCHANGED <<fixedVars, now, fluorVars, call, histVars, cyc, attempted, rows,
                   exc, stopCause, closed>>

(* scheduler.run pops the due event and calls run_rho, which enters the    *)
(* next event READ_TIME from now and then calls log_rho.                   *)
RunRho ==
    /\ pc = "sched"
    /\ queue # << >>
    /\ Head(queue) <= now
    /\ queue' = Enter(Tail(queue), now + config.read_time)
    /\ pc' = "read"
    /\ UNCHANGED <<fixedVars, now, fluorVars, call, histVars, cyc, attempted, rows,
                   exc, stopCause, closed>>

ReadVoltage ==
    /\ pc = "read"
    /\ \E v \in Voltages :
          cyc' = [cyc EXCEPT !.avg_voltage = Some(v), !.gainAtRead = Some(gain)]
    /\ pc' = "convert"
    /\ UNCHANGED <<fixedVars, now, fluorVars, call, histVars, queue, attempted, rows,
                   exc, stopCause, closed>>

(* task.start / task.read / task.stop raise (nidaqmx.DaqError): log_rho    *)
(* has no handler around line 219.                                         *)
ReadVoltageRaises ==
    /\ pc = "read"
    /\ cyc' = [cyc EXCEPT !.hwError = TRUE]
    /\ Crash("read_voltage")
    /\ UNCHANGED <<fixedVars, now, fluorVars, call, histVars, queue, attempted, rows, exc>>

Convert ==
    /\ pc = "convert"
    /\ convert_to_concentration(cyc.avg_voltage[1]) # None
    /\ cyc' = [cyc EXCEPT !.concentration = convert_to_concentration(cyc.avg_voltage[1])]
    /\ pc' = "gps"
    /\ UNCHANGED <<fixedVars, now, fluorVars, call, histVars, queue, attempted, rows,
                   exc, stopCause, closed>>

ConvertRaises ==
    /\ pc = "convert"
    /\ convert_to_concentration(cyc.avg_voltage[1]) = None
    /\ Crash("convert_to_concentration")
    /\ UNCHANGED <<fixedVars, now, fluorVars, call, histVars, queue, cyc, attempted,
                   rows, exc>>

(* GPS_PORT is None: gps = None.                                           *)
GpsDisabled ==
    /\ pc = "gps"
    /\ ~config.gps_port
    /\ cyc' = [cyc EXCEPT !.gps = None]
    /\ pc' = "stamp"
    /\ UNCHANGED <<fixedVars, now, fluorVars, call, histVars, queue, attempted, rows,
                   exc, stopCause, closed>>

(* read_GPS: Serial(port, 9600, timeout=1) opens.                          *)
GpsOpen ==
    /\ pc = "gps"
    /\ config.gps_port
    /\ cyc' = [cyc EXCEPT !.parsed_data = None, !.gps_start = Some(now)]
    /\ pc' = "gps_loop"
    /\ UNCHANGED <<fixedVars, now, fluorVars, call, histVars, queue, attempted, rows,
                   exc, stopCause, closed>>

(* read_GPS: opening the port raises; `except Exception` returns None.     *)
GpsOpenRaises ==
    /\ pc = "gps"
    /\ config.gps_port
    /\ cyc' = [cyc EXCEPT !.gps = None, !.gps_start = Some(now)]
    /\ pc' = "stamp"
    /\ UNCHANGED <<fixedVars, now, fluorVars, call, histVars, queue, attempted, rows,
                   exc, stopCause, closed>>

(* One nmr.read() of the while loop, taking up to the serial timeout.      *)
(* It yields a GGA sentence: the loop ends and read_GPS returns it.        *)
GpsReadGGA ==
    /\ pc = "gps_loop"
    /\ \E d \in 0..SERIAL_TIMEOUT, f \in Fixes :
          /\ now + d <= MaxTime
          /\ now' = now + d
          /\ cyc' = [cyc EXCEPT !.parsed_data = Some("GGA"), !.gps = Some(f)]
    /\ pc' = "stamp"
    /\ UNCHANGED <<fixedVars, fluorVars, call, histVars, queue, attempted, rows,
                   exc, stopCause, closed>>

(* It yields another sentence (msgID != "GGA"): the loop goes on.          *)
GpsReadOther ==
    /\ pc = "gps_loop"
    /\ \E d \in 0..SERIAL_TIMEOUT :
          /\ now + d <= MaxTime
          /\ now' = now + d
    /\ cyc' = [cyc EXCEPT !.parsed_data = Some("RMC")]
    /\ UNCHANGED <<fixedVars, fluorVars, call, histVars, pc, queue, attempted, rows,
                   exc, stopCause, closed>>

(* Nothing arrives within the serial timeout and nmr.read() returns        *)
(* (None, None): parsed_data is None, the loop goes on.                    *)
GpsReadNothing ==
    /\ pc = "gps_loop"
    /\ now + SERIAL_TIMEOUT <= MaxTime
    /\ now' = now + SERIAL_TIMEOUT
    /\ cyc' = [cyc EXCEPT !.parsed_data = None]
    /\ UNCHANGED <<fixedVars, fluorVars, call, histVars, pc, queue, attempted, rows,
                   exc, stopCause, closed>>

(* nmr.read() raises (serial or parse error): `except Exception` logs and  *)
(* returns None.                                                           *)
GpsReadRaises ==
    /\ pc = "gps_loop"
    /\ \E d \in 0..SERIAL_TIMEOUT :
          /\ now + d <= MaxTime
          /\ now' = now + d
    /\ cyc' = [cyc EXCEPT !.gps = None]
    /\ pc' = "stamp"
    /\ UNCHANGED <<fixedVars, fluorVars, call, histVars, queue, attempted, rows,
                   exc, stopCause, closed>>

(* Lines 228-245 with gps None: the location fields are None and the gps   *)
(* table is not touched.                                                   *)
StampNoFix ==
    /\ pc = "stamp"
    /\ cyc.gps = None
    /\ cyc' = [cyc EXCEPT !.timestamp = Some(now), !.lat = None, !.lon = None,
                          !.gps_time = None]
    /\ pc' = "loginfo"
    /\ UNCHANGED <<fixedVars, now, fluorVars, call, histVars, queue, attempted, rows,
                   exc, stopCause, closed>>

(* Lines 228-241 with a fix: the gps table insert, in its own try.         *)
GpsInsert ==
    /\ pc = "stamp"
    /\ cyc.gps # None
    /\ LET f == cyc.gps[1] IN
          /\ cyc' = [cyc EXCEPT !.timestamp = Some(now), !.lat = Some(f.lat),
                                !.lon = Some(f.lon), !.gps_time = f.time]
          /\ rows' = [rows EXCEPT !["gps"] =
                         Some([nmea_time |-> f.time, lat |-> Some(f.lat), lon |-> Some(f.lon)])]
    /\ attempted' = attempted \cup {"gps"}
    /\ pc' = "loginfo"
    /\ UNCHANGED <<fixedVars, now, fluorVars, call, histVars, queue, exc, stopCause, closed>>

(* The gps insert raises: caught by `except Exception`, logged.            *)
GpsInsertRaises ==
    /\ pc = "stamp"
    /\ cyc.gps # None
    /\ LET f == cyc.gps[1] IN
          cyc' = [cyc EXCEPT !.timestamp = Some(now), !.lat = Some(f.lat),
                             !.lon = Some(f.lon), !.gps_time = f.time]
    /\ attempted' = attempted \cup {"gps"}
    /\ pc' = "loginfo"
    /\ UNCHANGED <<fixedVars, now, fluorVars, call, histVars, queue, rows, exc, stopCause, closed>>

(* logger.info, first statement of the try block of lines 248-257.         *)
LogInfo ==
    /\ pc = "loginfo"
    /\ attempted' = attempted \cup {"console"}
    /\ rows' = [rows EXCEPT !["console"] = Some(Sample)]
    /\ pc' = "csv"
    /\ UNCHANGED <<fixedVars, now, fluorVars, call, histVars, queue, cyc, exc, stopCause, closed>>

(* log_data(DATAFILE, data_list) appends the CSV row.                      *)
LogData ==
    /\ pc = "csv"
    /\ attempted' = attempted \cup {"csv"}
    /\ rows' = [rows EXCEPT !["csv"] = Some(Sample)]
    /\ pc' = "insert"
    /\ UNCHANGED <<fixedVars, now, fluorVars, call, histVars, queue, cyc, exc, stopCause, closed>>

(* log_data raises (open or write fails): control leaves the try block for *)
(* `except Exception`, then `finally`; the insert below is skipped.        *)
LogDataRaises ==
    /\ pc = "csv"
    /\ attempted' = attempted \cup {"csv"}
    /\ pc' = "commit"
    /\ UNCHANGED <<fixedVars, now, fluorVars, call, histVars, queue, cyc, rows, exc,
                   stopCause, closed>>

(* c.execute(INSERT INTO RHO_TABLE ...).                                   *)
InsertRho ==
    /\ pc = "insert"
    /\ attempted' = attempted \cup {"rho"}
    /\ rows' = [rows EXCEPT !["rho"] = Some(Sample)]
    /\ pc' = "commit"
    /\ UNCHANGED <<fixedVars, now, fluorVars, call, histVars, queue, cyc, exc, stopCause, closed>>

InsertRhoRaises ==
    /\ pc = "insert"
    /\ attempted' = attempted \cup {"rho"}
    /\ pc' = "commit"
    /\ UNCHANGED <<fixedVars, now, fluorVars, call, histVars, queue, cyc, rows, exc,
                   stopCause, closed>>

(* finally: conn.commit().                                                 *)
Commit ==
    /\ pc = "commit"
    /\ cyc' = [cyc EXCEPT !.commits = @ + 1]
    /\ pc' = "autogain"
    /\ UNCHANGED <<fixedVars, now, fluorVars, call, histVars, queue, attempted,
                   rows, exc, stopCause, closed>>

(* conn.commit() raises inside the finally clause: set_autogain is skipped *)
(* and the sqlite3 error leaves log_rho (replacing a pending exception).   *)
CommitRaises ==
    /\ pc = "commit"
    /\ Crash("commit")
    /\ exc' = "none"
    /\ UNCHANGED <<fixedVars, now, fluorVars, call, histVars, queue, cyc, attempted, rows>>

(* finally: fluorometer.set_autogain(avg_voltage); log_rho then returns to *)
(* scheduler.run, or re-raises the KeyboardInterrupt that arrived in the   *)
(* try block.                                                              *)
AutoGain ==
    /\ pc = "autogain"
    /\ CanSettle(cyc.avg_voltage[1])
    /\ set_autogain(cyc.avg_voltage[1])
    /\ pc' = IF exc = "KeyboardInterrupt" THEN "cleanup" ELSE "sched"
    /\ exc' = "none"
    /\ cyc' = NoCycle
    /\ attempted' = {}
    /\ rows' = NoRows
    /\ UNCHANGED <<fixedVars, call, queue, stopCause, closed>>

(* SIGINT while set_autogain sleeps after a gain change: the sleep is cut  *)
(* short and the KeyboardInterrupt reaches main's handler.                 *)
AutoGainInterrupted ==
    /\ pc = "autogain"
    /\ \E slept \in 0..(gain_change_delay - 1) :
          /\ now + slept <= MaxTime
          /\ set_autogain_interrupted(cyc.avg_voltage[1], slept)
    /\ pc' = "cleanup"
    /\ exc' = "none"
    /\ cyc' = NoCycle
    /\ attempted' = {}
    /\ rows' = NoRows
    /\ UNCHANGED <<fixedVars, call, queue, stopCause, closed>>

(* SIGINT: Python raises KeyboardInterrupt in the main thread wherever it  *)
(* is. No `except Exception` catches it; raised inside the try block of    *)
(* lines 248-257 it runs that block's finally clause first and propagates  *)
(* afterwards; anywhere else it reaches main's handler directly, and the   *)
(* frame of log_rho with its locals is gone.                               *)
Interrupt ==
    /\ pc \in {"sched", "read", "convert", "gps", "gps_loop", "stamp",
               "loginfo", "csv", "insert", "commit", "autogain"}
    /\ IF pc \in {"loginfo", "csv", "insert"}
       THEN /\ exc' = "KeyboardInterrupt"
            /\ pc' = "commit"
            /\ UNCHANGED <<cyc, attempted, rows>>
       ELSE /\ exc' = "none"
            /\ pc' = "cleanup"
            /\ cyc' = NoCycle
            /\ attempted' = {}
            /\ rows' = NoRows
    /\ UNCHANGED <<fixedVars, now, fluorVars, call, histVars, queue, stopCause, closed>>

(* except KeyboardInterrupt: fluorometer.task.close(), then do_task.stop() *)
(* and do_task.close(), then conn.close(), with no handler around any of   *)
(* them; a DAQ call that raises leaves the except clause at once. On every *)
(* way out the finally clause logs "Program terminated." and main ends     *)
(* (pc = "done").                                                          *)
CloseTask ==
    /\ pc = "cleanup"
    /\ closed' = closed \cup {"task"}
    /\ pc' = "close_do"
    /\ UNCHANGED <<fixedVars, now, fluorVars, call, histVars, queue, cyc, attempted,
                   rows, exc, stopCause>>

CloseTaskRaises ==
    /\ pc = "cleanup"
    /\ pc' = "done"
    /\ stopCause' = "KeyboardInterrupt"
    /\ UNCHANGED <<fixedVars, now, fluorVars, call, histVars, queue, cyc, attempted,
                   rows, exc, closed>>

CloseDoTask ==
    /\ pc = "close_do"
    /\ closed' = closed \cup {"do_task"}
    /\ pc' = "close_conn"
    /\ UNCHANGED <<fixedVars, now, fluorVars, call, histVars, queue, cyc, attempted,
                   rows, exc, stopCause>>

CloseDoTaskRaises ==
    /\ pc = "close_do"
    /\ pc' = "done"
    /\ stopCause' = "KeyboardInterrupt"
    /\ UNCHANGED <<fixedVars, now, fluorVars, call, histVars, queue, cyc, attempted,
                   rows, exc, closed>>

CloseConn ==
    /\ pc = "close_conn"
    /\ closed' = closed \cup {"conn"}
    /\ pc' = "done"
    /\ stopCause' = "KeyboardInterrupt"
    /\ UNCHANGED <<fixedVars, now, fluorVars, call, histVars, queue, cyc, attempted,
                   rows, exc>>

Next ==
    \/ SchedSleep \/ RunRho
    \/ ReadVoltage \/ ReadVoltageRaises
    \/ Convert \/ ConvertRaises
    \/ GpsDisabled \/ GpsOpen \/ GpsOpenRaises
    \/ GpsReadGGA \/ GpsReadOther \/ GpsReadNothing \/ GpsReadRaises
    \/ StampNoFix \/ GpsInsert \/ GpsInsertRaises
    \/ LogInfo \/ LogData \/ LogDataRaises
    \/ InsertRho \/ InsertRhoRaises
    \/ Commit \/ CommitRaises
    \/ AutoGain \/ AutoGainInterrupted
    \/ Interrupt
    \/ CloseTask \/ CloseTaskRaises \/ CloseDoTask \/ CloseDoTaskRaises \/ CloseConn

Spec == Init /\ [][Next]_vars

----------------------------------------------------------------------------
(* StartSpec: the start of main.py up to my_scheduler.run(), for every     *)
(* state the SQLite file may be in.                                        *)

(* The file cannot be opened; it opens (or is created empty) without the   *)
(* measurement table; it holds the measurement table.                      *)
StoreStates == {"unopenable", "no_table", "ready"}

(* Names bound at module level in main.py when main() runs.                *)
ModuleGlobals ==
    {"config", "READ_TIME", "GPS_PORT", "RHO_SLOPE_1X", "RHO_SLOPE_10X",
     "RHO_SLOPE_100X", "RHO_OFFSET_1X", "RHO_OFFSET_10X", "RHO_OFFSET_100X",
     "AUTOGAIN", "GAIN", "LOGFILE", "DATAFILE", "DB_PATH", "RHO_TABLE", "logger",
     "log_data", "Fluorometer", "ensure_database_ready", "main"}

(* A variant of ensure_database_ready with a plausible slip: the result of *)
(* the query is not looked at.                                             *)
ensure_database_ready_nocheck(db_path) == "True"

(* ensure_database_ready: sqlite3.connect(DB_PATH), whatever db_path is;   *)
(* then the f-string with DB_TABLE is evaluated, then the query is run.    *)
(* Only sqlite3.OperationalError is caught.                                *)
ensure_database_ready(db_path) ==
    IF store = "unopenable" THEN "False"
    ELSE IF "DB_TABLE" \notin ModuleGlobals THEN "NameError"
    ELSE IF store = "no_table" THEN "False"
    ELSE "True"

(* The exit status of the interpreter: sys.exit(1) and an uncaught         *)
(* exception both give 1.                                                  *)
ExitStatus == IF stopCause \in {"none", "KeyboardInterrupt"} THEN 0 ELSE 1

InitStart ==
    /\ config \in Configs
    /\ params = NoParams
    /\ store \in StoreStates
    /\ current_gain = None
    /\ now = 0
    /\ gain = None /\ autogain = None /\ last_gain_change = None
    /\ lines = None /\ writes = 0
    /\ hist = << >> /\ changes = << >> /\ volts = {}
    /\ call = [op |-> "none", arg |-> None, ret |-> None, at |-> 0]
    /\ pc = "import"
    /\ queue = << >>
    /\ cyc = NoCycle
    /\ attempted = {}
    /\ rows = NoRows
    /\ exc = "none"
    /\ stopCause = "none"
    /\ closed = {}

(* Module level: config.yaml is read, logging is configured, main() is     *)
(* called.                                                                 *)
LoadConfig ==
    /\ pc = "import"
    /\ pc' = "main"
    /\ UNCHANGED <<fixedVars, now, fluorVars, call, histVars, queue, cyc, attempted,
                   rows, exc, stopCause, closed>>

(* main() from its first line to my_scheduler.run(): the check of the      *)
(* store, sys.exit(1) when it returns False; otherwise the connection, the *)
(* Fluorometer (DAQ tasks, first gain write) and the first scheduler       *)
(* event. An exception of the check leaves main, which is called outside   *)
(* any try.                                                                *)
MainStart ==
    /\ pc = "main"
    /\ LET ready == ensure_database_ready("DB_PATH")
       IN  IF ready = "True"
           THEN /\ gain' = config.gain
                /\ autogain' = config.auto
                /\ last_gain_change' = now
                /\ lines' = GainPattern(config.gain)
                /\ writes' = IF GainPattern(config.gain) # None THEN 1 ELSE 0
                /\ hist' = <<config.gain>>
                /\ queue' = Enter(<< >>, now + config.read_time)
                /\ pc' = "sched"
                /\ UNCHANGED stopCause
           ELSE /\ pc' = "done"
                /\ stopCause' = IF ready = "False" THEN "sys.exit(1)" ELSE ready
                /\ UNCHANGED <<fluorVars, hist, queue>>
    /\ UNCHANGED <<fixedVars, now, call, changes, volts, cyc, attempted, rows, exc,
                   closed>>

NextStart == LoadConfig \/ MainStart

StartSpec == InitStart /\ [][NextStart]_vars

----------------------------------------------------------------------------
(* SensorSpec: the Sensor of the asyncio variant (main-asyncio.py), its     *)
(* set_gain and adjust_gain called at arbitrary times. The gain is the     *)
(* pair written to the two digital lines.                                  *)

GAIN_1X   == <<FALSE, FALSE>>
GAIN_10X  == <<TRUE, FALSE>>
GAIN_100X == <<FALSE, TRUE>>
SensorGains == {GAIN_1X, GAIN_10X, GAIN_100X}

SENSOR_LOW_MV  == 150
SENSOR_HIGH_MV == 2250

(* A variant of set_gain with a plausible slip: no comparison with the     *)
(* current gain.                                                           *)
sensor_set_gain_always(g) ==
    [ret |-> TRUE, current_gain |-> g, write |-> Some(g)]

(* Sensor.set_gain: what it returns, the current_gain it leaves and what   *)
(* it hands to gain_task.write, None when it writes nothing.               *)
sensor_set_gain(g) ==
    IF current_gain # g
    THEN [ret |-> TRUE, current_gain |-> g, write |-> Some(g)]
    ELSE [ret |-> FALSE, current_gain |-> current_gain, write |-> None]

(* A variant of adjust_gain with a plausible slip: the thresholds          *)
(* themselves taken as out of range.                                       *)
adjust_gain_inclusive(raw_sensor_value) ==
    IF raw_sensor_value <= SENSOR_LOW_MV THEN sensor_set_gain(GAIN_100X)
    ELSE IF raw_sensor_value >= SENSOR_HIGH_MV THEN sensor_set_gain(GAIN_1X)
    ELSE sensor_set_gain(GAIN_10X)

adjust_gain(raw_sensor_value) ==
    IF raw_sensor_value < SENSOR_LOW_MV THEN sensor_set_gain(GAIN_100X)
    ELSE IF raw_sensor_value > SENSOR_HIGH_MV THEN sensor_set_gain(GAIN_1X)
    ELSE sensor_set_gain(GAIN_10X)

(* The effect of a call on the Sensor and on the digital lines.            *)
SensorApply(r) ==
    /\ current_gain' = r.current_gain
    /\ lines' = IF r.write # None THEN r.write[1] ELSE lines
    /\ writes' = IF r.write # None THEN writes + 1 ELSE writes

(* Sensor.__init__ sets current_gain to GAIN_1X and writes nothing.        *)
InitSensor ==
    /\ \E c \in Configs : c.read_time = 1 /\ ~c.gps_port /\ ~c.auto /\ c.gain = 1
                          /\ config = c
    /\ params = NoParams
    /\ store = "ready"
    /\ current_gain = GAIN_1X
    /\ now = 0
    /\ gain = None /\ autogain = None /\ last_gain_change = None
    /\ lines = None /\ writes = 0
    /\ hist = << >> /\ changes = << >> /\ volts = {}
    /\ call = [op |-> "init", arg |-> None, ret |-> None, at |-> 0]
    /\ LoopIdle

SensorSetGainCall ==
    /\ writes < MaxWrites
    /\ \E g \in SensorGains :
          /\ SensorApply(sensor_set_gain(g))
          /\ call' = [op |-> "set_gain", arg |-> Some(g),
                      ret |-> Some(sensor_set_gain(g).ret), at |-> now]
    /\ UNCHANGED <<config, params, store, now, gain, autogain, last_gain_change,
                   histVars, loopVars>>

SensorAdjustGainCall ==
    /\ writes < MaxWrites
    /\ \E v \in Voltages :
          /\ SensorApply(adjust_gain(v))
          /\ call' = [op |-> "adjust_gain", arg |-> Some(v),
                      ret |-> Some(adjust_gain(v).ret), at |-> now]
    /\ UNCHANGED <<config, params, store, now, gain, autogain, last_gain_change,
                   histVars, loopVars>>

NextSensor == SensorSetGainCall \/ SensorAdjustGainCall \/ Advance

SensorSpec == InitSensor /\ [][NextSensor]_vars

----------------------------------------------------------------------------
(* Claims about the gain controller (FluorSpec) *)

StepUp   == (1 :> 10 @@ 10 :> 100 @@ 100 :> 100)
StepDown == (1 :> 1 @@ 10 :> 1 @@ 100 :> 10)
Settled  == call.at - last_gain_change >= gain_change_delay
Decided(v, g) ==
    IF v < LOW_MV THEN StepUp[g] ELSE IF v > HIGH_MV THEN StepDown[g] ELSE g

(* C1: with autogain enabled, the gain g in {1,10,100} and the settling    *)
(* delay elapsed, determine_gain(v) returns one level above g when         *)
(* v < 0.15 V (100 stays 100), one level below g when v > 2.25 V (1 stays  *)
(* 1), and g itself when 0.15 V <= v <= 2.25 V.                            *)
C1_DetermineGainSteps ==
    (call.op = "determine_gain" /\ autogain /\ gain \in Gains /\ Settled)
        => call.ret = Some(Decided(call.arg[1], gain))

C1_Witness ==
    /\ call.op = "determine_gain" /\ autogain /\ Settled
    /\ gain = 10 /\ call.arg = Some(149) /\ call.ret = Some(100)

(* C2: a determine_gain call made less than gain_change_delay after the    *)
(* recorded time of the last gain change returns the current gain whatever *)
(* the voltage, and every transition made by set_autogain happened at      *)
(* least gain_change_delay after the previously recorded change.           *)
C2_SettlingEnforced ==
    /\ (call.op = "determine_gain" /\ call.at < last_gain_change + gain_change_delay)
          => call.ret = Some(gain)
    /\ \A i \in 1..Len(changes) :
          /\ changes[i].at - changes[i].prev >= gain_change_delay
          /\ i > 1 => changes[i].at - changes[i-1].at >= gain_change_delay

C2_Witness ==
    /\ call.op = "determine_gain" /\ autogain /\ gain = 1
    /\ call.at < last_gain_change + gain_change_delay
    /\ call.arg = Some(0) /\ call.ret = Some(1)

(* C3: self.gain is 1, 10 or 100 in every reachable state, for any gain    *)
(* value the constructor accepts from the configuration.                   *)
C3_GainAlwaysValid == gain \in Gains

(* C11: with autogain disabled, determine_gain returns the current gain    *)
(* for every voltage at every time, the gain stays the configured one and  *)
(* last_gain_change the constructor's, and a set_autogain call changes     *)
(* nothing: no gain-line write, no new gain, no timestamp, no sleep.       *)
C11_AutogainOffFrozen ==
    /\ [](~autogain =>
            /\ gain = config.gain /\ last_gain_change = 0 /\ changes = << >>
            /\ hist = <<config.gain>>
            /\ call.op = "determine_gain" => call.ret = Some(gain))
    /\ [][(~autogain /\ SetAutogainCall) =>
            UNCHANGED <<gain, last_gain_change, lines, writes, now>>]_vars

C11_Witness ==
    /\ ~autogain /\ call.op = "set_autogain" /\ call.arg = Some(0)
    /\ call.at >= gain_change_delay /\ now = call.at
    /\ gain = 1 /\ writes = 1 /\ lines = GainPattern(1)

(* C12: a set_autogain call whose decided gain equals the current gain     *)
(* writes no gain line, leaves gain and last_gain_change as they are and   *)
(* returns without sleeping.                                               *)
C12_SameGainNoOp ==
    [][(SetAutogainCall /\ determine_gain(call'.arg[1]) = gain) =>
          UNCHANGED <<gain, last_gain_change, lines, writes, now, hist, changes>>]_vars

C12_Witness ==
    /\ autogain /\ call.op = "set_autogain" /\ call.arg = Some(150)
    /\ call.at >= gain_change_delay /\ now = call.at
    /\ gain = 10 /\ last_gain_change = 0 /\ writes = 1

(* C30: the gain lines always reflect the recorded gain.  The table gives *)
(* three distinct patterns for 1, 10 and 100, and after construction and   *)
(* after every public set_gain or set_autogain call the pattern last       *)
(* written to the digital lines is the table entry of self.gain.           *)
C30_LinesReflectGain ==
    /\ \A g, h \in Gains : g # h => GainPattern(g) # GainPattern(h)
    /\ \A g \in Gains : GainPattern(g) # None
    /\ call.op \in {"init", "set_gain", "set_autogain"} =>
          lines = GainPattern(gain)

(* C10: with autogain enabled, a starting gain in {1,10,100} and the same  *)
(* voltage handed to every set_autogain call, the gain changes at most     *)
(* twice, never returns to a value it has left, and once it is the value   *)
(* that voltage settles on it is never changed again.                      *)
ConstantVoltage == volts # Voltages
NoRevisit == \A i, j \in 1..Len(hist) : i # j => hist[i] # hist[j]
C10_NoOscillation ==
    /\ [](( autogain /\ hist[1] \in Gains /\ ConstantVoltage )
             => (Len(hist) <= 3 /\ NoRevisit))
    /\ [][ \A v \in Voltages :
             ( autogain /\ gain \in Gains /\ volts' = {v} /\ Decided(v, gain) = gain )
                => gain' = gain ]_vars

C10_Witness ==
    /\ autogain /\ volts = {0} /\ hist = <<1, 10, 100>>
    /\ call.op = "set_autogain" /\ Len(changes) = 2
    /\ now - last_gain_change >= gain_change_delay

----------------------------------------------------------------------------
(* Claims about the concentration converter (ConvSpec) *)

StandardRatioPresent ==
    /\ params.std_concentration # None /\ params.std_voltage # None
    /\ params.std_gain # None
    /\ params.blank_1x # None /\ params.blank_10x # None /\ params.blank_100x # None
ThreePointPresent ==
    /\ params.slope_1x # None /\ params.slope_10x # None /\ params.slope_100x # None
    /\ params.offset_1x # None /\ params.offset_10x # None
    /\ params.offset_100x # None
Converted == call.op = "convert_to_concentration"

(* C16: a conversion uses the standard-ratio method exactly when           *)
(* std_concentration, std_voltage, std_gain and the three blanks were all  *)
(* supplied (0 included); otherwise the three-point method exactly when    *)
(* the three slopes and three offsets were all supplied; in every other    *)
(* case it raises the configuration error and returns nothing.             *)
C16_ModelSelection ==
    Converted =>
        /\ call.ret.method = "turner" <=> StandardRatioPresent
        /\ call.ret.method = "3pt" <=> (~StandardRatioPresent /\ ThreePointPresent)
        /\ (~StandardRatioPresent /\ ~ThreePointPresent) =>
              (call.ret.exc = NoCalibration /\ call.ret.value = None)

C18_ConfigErrorAtConstruction ==
    params = NoParams =>
        /\ call.op # "read_voltage"
        /\ ~(Converted /\ call.ret.exc = NoCalibration)

(* C21: a three-point conversion at gain g in {1,10,100} returns           *)
(* slope[g] * v * 1000 + offset[g], v * 1000 being the millivolts, whatever *)
(* the slopes and offsets of the other gains are.                          *)
SlopeOf  == (1 :> params.slope_1x @@ 10 :> params.slope_10x @@ 100 :> params.slope_100x)
OffsetOf == (1 :> params.offset_1x @@ 10 :> params.offset_10x
             @@ 100 :> params.offset_100x)
BlankOf  == (1 :> params.blank_1x @@ 10 :> params.blank_10x @@ 100 :> params.blank_100x)
C21_ThreePointFormula ==
    (Converted /\ call.ret.method = "3pt" /\ gain \in Gains
       /\ OffsetOf[gain] # None) =>
        /\ call.ret.exc = "none"
        /\ call.ret.value =
              Some(<<SlopeOf[gain][1] * call.arg[1] + OffsetOf[gain][1], 1>>)

C21_Witness ==
    /\ Converted /\ call.ret.method = "3pt" /\ gain = 10 /\ call.arg = Some(2250)
    /\ params.offset_1x = None /\ params.offset_100x = None
    /\ call.ret.value = Some(<<6751, 1>>)

(* C22: a standard-ratio conversion at gain g in {1,10,100} returns        *)
(* (v - blank[g]) / g * std_concentration / (std_voltage - blank[std_gain]) *)
(* / std_gain: the returned fraction equals that quotient.                 *)
Abs(n) == IF n < 0 THEN 0 - n ELSE n
RECURSIVE Gcd(_, _)
Gcd(a, b) == IF b = 0 THEN a ELSE Gcd(b, a % b)
(* The fraction n/d in lowest terms with a positive denominator.           *)
Lowest(n, d) ==
    LET g == Gcd(Abs(n), Abs(d))
        sgn == IF d < 0 THEN 0 - 1 ELSE 1
    IN  <<sgn * (n \div g), sgn * (d \div g)>>
C22_StandardRatioFormula ==
    (Converted /\ call.ret.method = "turner" /\ gain \in Gains
       /\ call.ret.exc = "none") =>
        /\ params.std_gain # None /\ params.std_gain[1] \in Gains
        /\ BlankOf[gain] # None /\ BlankOf[params.std_gain[1]] # None
        /\ LET num == (call.arg[1] - BlankOf[gain][1]) * params.std_concentration[1]
               den == gain
                      * (params.std_voltage[1] - BlankOf[params.std_gain[1]][1])
                      * params.std_gain[1]
               ret == call.ret.value[1]
           IN  den # 0 /\ ret[2] # 0 /\ Lowest(ret[1], ret[2]) = Lowest(num, den)

(* 10 ppb standard read as 1.0 V at gain 10, blanks 0: 1.0 V at gain 10 is  *)
(* 0.1; and a conversion whose two blanks differ.                          *)
C22_Witness ==
    /\ Converted /\ call.ret.method = "turner" /\ gain = 10
    /\ params.std_concentration = Some(10) /\ params.std_voltage = Some(1000)
    /\ params.std_gain = Some(10) /\ params.blank_10x = Some(0)
    /\ call.arg = Some(1000)
    /\ call.ret.value # None
    /\ call.ret.value[1][1] * 10 = call.ret.value[1][2]

(* C23: with a gain other than 1, 10 and 100 a conversion by either method *)
(* raises an invalid-gain error and returns nothing.                       *)
InvalidGainErrors == {"ValueError: Invalid gain setting",
                      "ValueError: Invalid standard gain setting"}
C23_InvalidGainRejected ==
    (Converted /\ gain \notin Gains /\ call.ret.method \in {"turner", "3pt"}) =>
        (call.ret.exc \in InvalidGainErrors /\ call.ret.value = None)

----------------------------------------------------------------------------
(* Claims about the acquisition cycle (Spec) *)

InCycle == pc \in {"convert", "gps", "gps_loop", "stamp", "loginfo", "csv",
                   "insert", "commit", "autogain"}
SinksDone == pc \in {"commit", "autogain"} /\ exc = "none"
RecordSinks == {"console", "csv", "rho"}

(* C4: every record a sink receives carries the gain that was active when  *)
(* the cycle's voltage was read, that voltage, and the concentration       *)
(* obtained from it with the slope and offset of that gain; the gain does  *)
(* not change from the read to the end of the sink writes, and it changes  *)
(* only in the set_autogain step that follows them.                        *)
C4_LoggedGainMatches ==
    /\ [](InCycle =>
            /\ cyc.gainAtRead = Some(gain)
            /\ \A s \in RecordSinks : rows[s] # None =>
                  /\ rows[s][1].gain = cyc.gainAtRead[1]
                  /\ rows[s][1].voltage = cyc.avg_voltage
                  /\ rows[s][1].concentration =
                        Some(config.cal.slope[cyc.gainAtRead[1]] * cyc.avg_voltage[1]
                             + config.cal.offset[cyc.gainAtRead[1]]))
    /\ [][gain' # gain => (pc = "autogain" /\ pc' \in {"sched", "cleanup"})]_vars

C4_Witness ==
    /\ pc = "autogain" /\ Len(changes) >= 1 /\ gain = 10
    /\ rows["rho"] # None /\ rows["csv"] # None
    /\ rows["rho"][1].gain = 10
    /\ determine_gain(cyc.avg_voltage[1]) = 100

(* C13: a set_autogain call that changes the gain writes the gain lines    *)
(* of the new gain, sets self.gain and sets last_gain_change to the time   *)
(* of the call, and returns only gain_change_delay later; the loop makes   *)
(* no voltage read between a gain-line write of set_autogain and the end   *)
(* of that delay.                                                          *)
C13_SettleBeforeNextRead ==
    /\ [][gain' # gain =>
            /\ gain' = determine_gain(cyc.avg_voltage[1])
            /\ lines' = GainPattern(gain') /\ writes' = writes + 1
            /\ last_gain_change' = now
            /\ AutoGain => now' = now + gain_change_delay]_vars
    /\ [][(pc = "read" /\ pc' \in {"convert", "done"} /\ changes # << >>) =>
            now >= last_gain_change + gain_change_delay]_vars

C13_Witness ==
    /\ pc = "convert" /\ changes # << >> /\ writes = 2
    /\ now = last_gain_change + gain_change_delay
    /\ cyc.gainAtRead = Some(100) /\ lines = GainPattern(100)

(* C14: the interrupt is honoured only at a tick boundary: main's handler  *)
(* is entered only from the scheduler between two cycles, never from       *)
(* inside a cycle.                                                         *)
C14_StopOnlyBetweenCycles == [][pc' = "cleanup" => pc \in {"sched", "cleanup"}]_vars

(* C15: when main has ended after an interrupt, the analog task, the       *)
(* digital gain task and the database connection have all been closed.     *)
C15_CleanShutdown ==
    (pc = "done" /\ stopCause = "KeyboardInterrupt") =>
        closed = {"task", "do_task", "conn"}

(* C5: a voltage read that raises does not end the cycle: the cycle goes   *)
(* on with avg_voltage and concentration None.                             *)
C5_ReadFailureContinues ==
    cyc.hwError => (InCycle /\ cyc.avg_voltage = None /\ cyc.concentration = None)

(* C6: the scheduler leaves Running only on the interrupt signal; no error *)
(* raised inside a cycle stops it.                                         *)
C6_OnlyInterruptStops == pc = "done" => stopCause = "KeyboardInterrupt"

(* C7: when the sink stage of a cycle is over, every sink was attempted:   *)
(* console log, CSV append and measurement insert, and the gps insert when *)
(* there is a fix, whichever of them raised.                               *)
C7_SinksIndependent ==
    SinksDone =>
        /\ RecordSinks \subseteq attempted
        /\ cyc.gps # None => "gps" \in attempted

(* C8: in a cycle with a GPS port configured and no fix, the location      *)
(* fields are None, voltage and concentration are not, the gps table is    *)
(* not written and the measurement insert is still made.                   *)
C8_NoFixStillLogged ==
    (SinksDone /\ config.gps_port /\ cyc.gps = None) =>
        /\ cyc.lat = None /\ cyc.lon = None /\ cyc.gps_time = None
        /\ cyc.avg_voltage # None /\ cyc.concentration # None
        /\ "gps" \notin attempted /\ rows["gps"] = None
        /\ "rho" \in attempted

(* C9: read_GPS returns within its timeout: the cycle is never still in    *)
(* the read loop more than the timeout after the read began.               *)
C9_GpsReadBounded ==
    pc = "gps_loop" => now - cyc.gps_start[1] <= SERIAL_TIMEOUT

(* C27: the transaction is committed exactly once in every cycle, and     *)
(* only after every sink of the cycle has been attempted (console, CSV,    *)
(* measurement insert, and the gps insert when there is a fix), also when  *)
(* a sink raised; a cycle that an error ended was committed too.           *)
C27_OneCommitAfterSinks ==
    /\ cyc.commits <= 1
    /\ (cyc.commits = 1 /\ exc = "none") =>
          /\ RecordSinks \subseteq attempted
          /\ cyc.gps # None => "gps" \in attempted
    /\ pc = "autogain" => cyc.commits = 1
    /\ (pc = "done" /\ stopCause \in {"read_voltage", "convert_to_concentration"}) =>
          cyc.commits = 1

(* C28: no two acquisition cycles overlap.  A cycle body starts only from  *)
(* the scheduler, with nothing of the previous cycle left (no sample, no   *)
(* attempted sink, no pending exception); a cycle that changed the gain    *)
(* returns to the scheduler only gain_change_delay after the change, and   *)
(* the next cycle starts no earlier, also when READ_TIME is shorter than   *)
(* the cycle.                                                              *)
C28_NoCycleOverlap ==
    /\ [][(pc' = "read" /\ pc # "read") =>
            /\ pc = "sched" /\ cyc = NoCycle /\ attempted = {}
            /\ rows = NoRows /\ exc = "none"
            /\ changes # << >> => now >= last_gain_change + gain_change_delay]_vars
    /\ [][(pc = "autogain" /\ pc' = "sched" /\ gain' # gain) =>
            now' = now + gain_change_delay]_vars
    /\ [][(InCycle /\ pc' = "sched") => (pc = "autogain" /\ cyc' = NoCycle)]_vars

C28_Witness ==
    /\ pc = "read" /\ config.read_time < gain_change_delay
    /\ changes # << >> /\ now = last_gain_change + gain_change_delay
    /\ queue = <<now + config.read_time>> /\ cyc = NoCycle

(* C29: the tick handler registers the next tick before it runs the cycle  *)
(* body, and once a cycle has run a full period past the pending tick,     *)
(* more than one tick is pending in the schedule.                          *)
C29_TicksAccumulate ==
    /\ (pc = "read" \/ InCycle) => queue # << >>
    /\ (queue # << >> /\ now >= Head(queue) + config.read_time) => Len(queue) > 1

(* C29, amended: the tick handler registers the next tick before it runs   *)
(* the cycle body, READ_TIME after the time the handler was called; the    *)
(* schedule never holds more than one tick, so a cycle that runs longer    *)
(* than the period leaves one overdue tick, which runs as soon as the      *)
(* cycle has returned, and every later tick is delayed by the overrun.     *)
C29_OneTickPending ==
    /\ [](Len(queue) <= 1)
    /\ []((pc = "read" \/ InCycle) => Len(queue) = 1)
    /\ [][(pc' = "read" /\ pc # "read") =>
            /\ Head(queue) <= now
            /\ queue' = <<now + config.read_time>>]_vars
    /\ [][(pc = "read" \/ InCycle) => queue' = queue]_vars

C29_Witness ==
    /\ pc = "sched" /\ Len(queue) = 1
    /\ now >= Head(queue) + config.read_time
    /\ changes # << >>

(* C31: every cycle whose voltage was read calls set_autogain exactly      *)
(* once, with that voltage and after the commit: the cycle is left only    *)
(* from the set_autogain call, with one commit made, the gain then is the  *)
(* one determine_gain gives for the cycle's voltage, and no step before    *)
(* that call touches the gain or the gain lines.                           *)
C31_AutogainOncePerCycle ==
    /\ [][(cyc.avg_voltage # None /\ (cyc' = NoCycle \/ pc' \in {"done", "cleanup"})) =>
            /\ pc = "autogain" /\ cyc.commits = 1
            /\ gain' = determine_gain(cyc.avg_voltage[1])
            /\ cyc.avg_voltage[1] \in volts']_vars
    /\ [][((pc = "read" \/ InCycle) /\ pc # "autogain") =>
            UNCHANGED <<gain, lines, writes, volts>>]_vars

(* C33: every voltage read of the loop happens at least gain_change_delay  *)
(* after the most recent gain-line write, the write of the constructor     *)
(* included, whatever READ_TIME is.  (In the loop every gain-line write    *)
(* is made at the time recorded in last_gain_change.)                      *)
C33_ReadAfterSettle ==
    /\ [][writes' # writes => last_gain_change' = now]_vars
    /\ [][(pc = "read" /\ pc' \in {"convert", "done"} /\ writes > 0) =>
            now >= last_gain_change + gain_change_delay]_vars

(* C19: the gps table is written only in a cycle that obtained a fix and   *)
(* the measurement table only with a concentration that is not None; the   *)
(* console log and the CSV append have been attempted in every cycle that  *)
(* has come to its end, whether it ran through or an error ended it.       *)
CycleOver ==
    \/ SinksDone
    \/ pc = "done" /\ stopCause \in {"read_voltage", "convert_to_concentration"}
C19_SinkGating ==
    /\ ("gps" \in attempted \/ rows["gps"] # None) => cyc.gps # None
    /\ ("rho" \in attempted \/ rows["rho"] # None) => cyc.concentration # None
    /\ CycleOver => {"console", "csv"} \subseteq attempted

(* C20: in every record a sink receives, a voltage of None comes with a    *)
(* concentration of None: no record carries a concentration without the    *)
(* voltage it was computed from, and log_rho never holds one either.       *)
C20_NullVoltageNullConcentration ==
    /\ cyc.avg_voltage = None => cyc.concentration = None
    /\ \A s \in RecordSinks : rows[s] # None =>
          (rows[s][1].voltage = None => rows[s][1].concentration = None)

C20_Witness ==
    /\ pc = "commit" /\ rows["csv"] # None /\ rows["rho"] # None
    /\ rows["csv"][1].voltage = Some(149) /\ rows["csv"][1].concentration # None
    /\ rows["rho"][1].voltage = Some(149) /\ rows["rho"][1].concentration # None

----------------------------------------------------------------------------
(* Claims about the start of main.py (StartSpec) *)

HardwareOpened == lines # None \/ writes > 0 \/ hist # << >>
SchedulerStarted == queue # << >> \/ pc \in {"sched", "read"}

(* C24: when the store does not hold the measurement table, main ends at   *)
(* startup with a non-zero exit status; the DAQ tasks are never opened,    *)
(* the scheduler is never started and no cycle runs.                       *)
C24_NoTableExitsNonZero ==
    store # "ready" =>
        /\ ~HardwareOpened /\ ~SchedulerStarted /\ cyc = NoCycle
        /\ pc \in {"import", "main", "done"}
        /\ pc = "done" => ExitStatus # 0

C24_Witness ==
    /\ store = "no_table" /\ pc = "done" /\ ExitStatus = 1
    /\ ~HardwareOpened /\ ~SchedulerStarted

(* C32: when the store holds the measurement table, the startup check      *)
(* returns True and startup proceeds: once main is past the check, the     *)
(* Fluorometer is constructed (first gain write made), the first event is  *)
(* in the scheduler and main has not ended.                                *)
C32_ReadyStoreStarts ==
    (store = "ready" /\ pc \notin {"import", "main"}) =>
        /\ ensure_database_ready("DB_PATH") = "True"
        /\ HardwareOpened /\ SchedulerStarted
        /\ pc = "sched" /\ stopCause = "none"

----------------------------------------------------------------------------
(* Claims about the asyncio Sensor (SensorSpec) *)

Requested(v) ==
    IF v < 150 THEN <<FALSE, TRUE>> ELSE IF v > 2250 THEN <<FALSE, FALSE>>
    ELSE <<TRUE, FALSE>>

(* C25: adjust_gain(v) asks for 100X when v < 0.15, for 1X when v > 2.25   *)
(* and for 10X otherwise; it returns True, with that pattern written to    *)
(* the gain lines, exactly when the pattern differs from current_gain.     *)
C25_AdjustGain ==
    [][SensorAdjustGainCall =>
          LET req == Requested(call'.arg[1])
          IN  /\ current_gain' = req
              /\ call'.ret = Some(req # current_gain)
              /\ IF req # current_gain
                 THEN lines' = req /\ writes' = writes + 1
                 ELSE UNCHANGED <<lines, writes>>]_vars

C25_Witness ==
    /\ call.op = "adjust_gain" /\ call.arg = Some(150) /\ call.ret = Some(TRUE)
    /\ current_gain = GAIN_10X /\ lines = GAIN_10X /\ writes = 2

(* C26: set_gain(g) with g other than current_gain writes g, sets          *)
(* current_gain to g and returns True; with g equal to current_gain it     *)
(* writes nothing, changes nothing and returns False; so current_gain is   *)
(* always the pattern last written, or 1X when nothing was written yet.    *)
C26_SetGainIdempotent ==
    /\ [](current_gain = IF writes = 0 THEN GAIN_1X ELSE lines)
    /\ [][SensorSetGainCall =>
            IF call'.arg[1] # current_gain
            THEN /\ lines' = call'.arg[1] /\ writes' = writes + 1
                 /\ current_gain' = call'.arg[1] /\ call'.ret = Some(TRUE)
            ELSE /\ UNCHANGED <<lines, writes, current_gain>>
                 /\ call'.ret = Some(FALSE)]_vars

C26_Witness ==
    /\ call.op = "set_gain" /\ call.arg = Some(GAIN_100X) /\ call.ret = Some(FALSE)
    /\ current_gain = GAIN_100X /\ lines = GAIN_100X /\ writes = 1

====
